---- MODULE Spec2Model ----
(***************************************************************************)
(* A model of advanced_dcf_calculator.py: the valuation formulas           *)
(* (calculate_tax_rate .. calculate_intrinsic_value_per_share), the run of  *)
(* main() and the sensitivity grid of create_visualizations().              *)
(*                                                                         *)
(* Numbers.  The program computes in floating point; the model computes in *)
(* exact rationals.  A number is a pair <<n, d>> in lowest terms with      *)
(* d > 0.  Python's None is the empty tuple.  The three non-finite values   *)
(* numpy produces on a division by zero are pairs with d = 0.              *)
(***************************************************************************)
EXTENDS Integers, Sequences, FiniteSets, TLC

VARIABLES
    pc,                 \* position of main()
    entered,            \* what the user typed at the prompts of get_user_inputs
    inputs,             \* the dict get_user_inputs returns
    provider,           \* what the market-data provider holds for the ticker
    company_data,       \* the dict fetch_company_data returns (or None)
    tax_rate, cost_of_equity, cost_of_debt, wacc,
    base_fcff, forecasted_fcff, terminal_value,
    enterprise_value, pv_fcff_list, pv_terminal,
    equity_value, intrinsic_value,
    wacc_range, growth_range, sensitivity_matrix, row,
    current_wacc_idx, current_growth_idx,   \* the cell marked as the current assumptions
    stdout,             \* the error and warning lines printed so far
    call, ret           \* one direct call of a formula and what it returned

vars == <<pc, entered, inputs, provider, company_data, tax_rate, cost_of_equity,
          cost_of_debt, wacc, base_fcff, forecasted_fcff, terminal_value,
          enterprise_value, pv_fcff_list, pv_terminal, equity_value,
          intrinsic_value, wacc_range, growth_range, sensitivity_matrix, row,
          current_wacc_idx, current_growth_idx, stdout, call, ret>>

-----------------------------------------------------------------------------
(* Exact rational arithmetic *)

None == <<>>
NaN == <<0, 0>>
PosInf == <<1, 0>>
NegInf == <<-1, 0>>

Abs(n) == IF n < 0 THEN -n ELSE n

RECURSIVE GCD(_, _)
GCD(a, b) == IF b = 0 THEN a ELSE GCD(b, a % b)

Norm(n, d) == LET g == GCD(Abs(n), d) IN <<n \div g, d \div g>>

Q(n) == <<n, 1>>
Frac(n, d) == Norm(n, d)
Pct(n) == Norm(n, 100)

IsNone(x) == Len(x) = 0
IsFinite(x) == Len(x) = 2 /\ x[2] > 0
IsNaN(x) == Len(x) = 2 /\ x[2] = 0 /\ x[1] = 0

Neg(x) == <<-x[1], x[2]>>
Add(x, y) ==
    LET g == GCD(x[2], y[2])
        l == (x[2] \div g) * y[2]
    IN  Norm(x[1] * (l \div x[2]) + y[1] * (l \div y[2]), l)
Sub(x, y) == Add(x, Neg(y))
Mul(x, y) ==
    LET g1 == GCD(Abs(x[1]), y[2])
        g2 == GCD(Abs(y[1]), x[2])
    IN  Norm((x[1] \div g1) * (y[1] \div g2), (x[2] \div g2) * (y[2] \div g1))
Inv(y) == IF y[1] > 0 THEN <<y[2], y[1]>> ELSE <<-y[2], -y[1]>>
\* x / y on Python numbers: a zero divisor raises ZeroDivisionError.
ZeroDivisionError == <<0>>
Div(x, y) == IF y[1] = 0 THEN ZeroDivisionError ELSE Mul(x, Inv(y))
Lt(x, y) == x[1] * y[2] < y[1] * x[2]
Le(x, y) == x[1] * y[2] <= y[1] * x[2]
Max(x, y) == IF Lt(x, y) THEN y ELSE x
Min(x, y) == IF Lt(y, x) THEN y ELSE x

RECURSIVE Pow(_, _)
Pow(x, k) == IF k = 0 THEN Q(1) ELSE Mul(x, Pow(x, k - 1))

RECURSIVE Sum(_)
Sum(s) == IF s = <<>> THEN Q(0) ELSE Add(Sum(SubSeq(s, 1, Len(s) - 1)), s[Len(s)])

\* x / y on a numpy float: a zero divisor gives nan or an infinity (with a
\* warning), never an exception.
NpDiv(x, y) ==
    IF y[1] # 0 THEN Mul(x, Inv(y))
    ELSE IF x[1] = 0 THEN NaN
    ELSE IF x[1] > 0 THEN PosInf ELSE NegInf

\* Python's truth value of an optional number: None and 0 are false.
Truthy(x) == ~IsNone(x) /\ x[1] # 0

-----------------------------------------------------------------------------
(* The formulas *)

\* Mutant: the upper clamp is missing.
calculate_tax_rate_unclamped(ebit, tax_expense) ==
    IF IsNone(tax_expense) \/ Le(ebit, Q(0)) THEN Pct(21)
    ELSE Max(Q(0), Div(tax_expense, ebit))

calculate_tax_rate(ebit, tax_expense) ==
    IF IsNone(tax_expense) \/ Le(ebit, Q(0)) THEN Pct(21)
    ELSE Max(Q(0), Min(Div(tax_expense, ebit), Frac(1, 2)))

\* Mutant: the interest fallback is taken before the no-debt test.
calculate_cost_of_debt_fallback_first(total_debt, interest_expense, rate) ==
    IF IsNone(interest_expense) \/ interest_expense = Q(0)
    THEN Mul(Pct(4), Sub(Q(1), rate))
    ELSE IF total_debt = Q(0) THEN Q(0)
    ELSE Mul(Div(interest_expense, total_debt), Sub(Q(1), rate))

calculate_cost_of_debt(total_debt, interest_expense, rate) ==
    IF total_debt = Q(0) THEN Q(0)
    ELSE LET pretax_cost ==
                 IF IsNone(interest_expense) \/ interest_expense = Q(0)
                 THEN Pct(4)
                 ELSE Div(interest_expense, total_debt)
         IN  Mul(pretax_cost, Sub(Q(1), rate))

calculate_cost_of_equity(risk_free_rate, beta, equity_risk_premium) ==
    Add(risk_free_rate, Mul(beta, equity_risk_premium))

\* Mutant: the degenerate test looks at the market cap alone.
calculate_wacc_equity_guard(coe, cod, market_cap, total_debt) ==
    IF market_cap = Q(0) THEN coe
    ELSE LET total_value == Add(market_cap, total_debt)
         IN  Add(Mul(Div(market_cap, total_value), coe),
                 Mul(Div(total_debt, total_value), cod))

calculate_wacc(coe, cod, market_cap, total_debt) ==
    LET total_value == Add(market_cap, total_debt)
    IN  IF total_value = Q(0) THEN coe
        ELSE LET weight_equity == Div(market_cap, total_value)
                 weight_debt == Div(total_debt, total_value)
             IN  Add(Mul(weight_equity, coe), Mul(weight_debt, cod))

\* Mutant: capital expenditure is added back instead of deducted.
calculate_fcff_capex_added(ebit, rate, depreciation, capex, change_in_wc) ==
    LET nopat == Mul(ebit, Sub(Q(1), rate))
        dep == IF Truthy(depreciation) THEN depreciation ELSE Q(0)
    IN  Sub(Add(Add(nopat, dep), capex), change_in_wc)

calculate_fcff(ebit, rate, depreciation, capex, change_in_wc) ==
    LET nopat == Mul(ebit, Sub(Q(1), rate))
        dep == IF Truthy(depreciation) THEN depreciation ELSE Q(0)
    IN  Sub(Sub(Add(nopat, dep), capex), change_in_wc)

\* Mutant: the years are counted from 0.
forecast_fcff_from_zero(base, forecast_years, short_term_growth) ==
    LET g == IF IsNone(short_term_growth) THEN Pct(5) ELSE short_term_growth
    IN  [year \in 1..forecast_years |-> Mul(base, Pow(Add(Q(1), g), year - 1))]

forecast_fcff(base, forecast_years, short_term_growth) ==
    LET g == IF IsNone(short_term_growth) THEN Pct(5) ELSE short_term_growth
    IN  [year \in 1..forecast_years |-> Mul(base, Pow(Add(Q(1), g), year))]

\* Prints an error and returns 0 when wacc <= perpetual_growth.
calculate_terminal_value(fcff_final, perpetual_growth, w) ==
    IF Le(w, perpetual_growth) THEN Q(0)
    ELSE Div(Mul(fcff_final, Add(Q(1), perpetual_growth)), Sub(w, perpetual_growth))

TerminalValueError == "Error: WACC must be greater than perpetual growth rate"

\* Mutant: the terminal value is discounted one year too many.
calculate_enterprise_value_late_terminal(fcffs, tv, w) ==
    LET pvs == [year \in 1..Len(fcffs) |-> Div(fcffs[year], Pow(Add(Q(1), w), year))]
        pv_tv == Div(tv, Pow(Add(Q(1), w), Len(fcffs) + 1))
    IN  <<Add(Sum(pvs), pv_tv), pvs, pv_tv>>

\* <<enterprise_value, pv_fcff_list, pv_terminal>>
calculate_enterprise_value(fcffs, tv, w) ==
    LET pvs == [year \in 1..Len(fcffs) |-> Div(fcffs[year], Pow(Add(Q(1), w), year))]
        pv_tv == Div(tv, Pow(Add(Q(1), w), Len(fcffs)))
    IN  <<Add(Sum(pvs), pv_tv), pvs, pv_tv>>

calculate_equity_value(ev, total_debt, cash) == Add(Sub(ev, total_debt), cash)

calculate_intrinsic_value_per_share(eq, shares_outstanding) ==
    IF shares_outstanding = Q(0) THEN Q(0) ELSE Div(eq, shares_outstanding)

-----------------------------------------------------------------------------
(* get_user_inputs and fetch_company_data *)

\* validate_positive_number / validate_positive_integer accept the entry.
EntriesValid(e) ==
    /\ e.risk_free_rate[1] >= 0
    /\ e.equity_risk_premium[1] >= 0
    /\ e.forecast_years > 0
    /\ e.perpetual_growth[1] >= 0
    /\ (e.use_custom_growth = "y" => e.short_term_growth[1] >= 0)

\* The dict returned for entries that pass validation (percentages become
\* fractions).  The short-term growth is asked for only after a "y".
get_user_inputs(e) ==
    LET short_term_growth ==
            IF e.use_custom_growth = "y" THEN e.short_term_growth ELSE None
    IN  [risk_free_rate |-> Div(e.risk_free_rate, Q(100)),
         equity_risk_premium |-> Div(e.equity_risk_premium, Q(100)),
         forecast_years |-> e.forecast_years,
         perpetual_growth |-> Div(e.perpetual_growth, Q(100)),
         short_term_growth |-> IF Truthy(short_term_growth)
                               THEN Div(short_term_growth, Q(100)) ELSE None]

\* x if x else 0
OrZero(x) == IF Truthy(x) THEN x ELSE Q(0)

\* Mutant: a missing EBIT is replaced by 0 instead of failing the fetch.
fetch_company_data_ebit_default(p) ==
    IF p.raises THEN None
    ELSE IF ~p.financials THEN None
    ELSE IF ~p.balance_sheet THEN None
    ELSE IF ~p.cashflow THEN None
    ELSE IF IsNone(p.marketCap) \/ IsNone(p.sharesOutstanding) THEN None
    ELSE [beta |-> IF IsNone(p.beta) THEN Q(1) ELSE p.beta,
          market_cap |-> p.marketCap,
          shares_outstanding |-> p.sharesOutstanding,
          ebit |-> IF IsNone(p.ebit) THEN Q(0) ELSE p.ebit,
          tax_expense |-> p.tax,
          depreciation |-> p.dep,
          interest_expense |-> p.interest,
          total_debt |-> Add(OrZero(p.ltd), OrZero(p.std)),
          cash |-> IF IsNone(p.cash) THEN Q(0) ELSE p.cash,
          capex |-> IF Truthy(p.capex) THEN <<Abs(p.capex[1]), p.capex[2]>> ELSE Q(0),
          change_in_wc |-> Q(0)]

\* The provider p holds what yfinance returns: raises (any exception while
\* fetching), the three statements (FALSE: None or empty), the info fields and
\* the statement rows (None: the key or row is missing).
fetch_company_data(p) ==
    IF p.raises THEN None
    ELSE IF ~p.financials THEN None
    ELSE IF ~p.balance_sheet THEN None
    ELSE IF ~p.cashflow THEN None
    ELSE IF IsNone(p.marketCap) \/ IsNone(p.sharesOutstanding) THEN None
    ELSE IF IsNone(p.ebit) THEN None
    ELSE [beta |-> IF IsNone(p.beta) THEN Q(1) ELSE p.beta,
          market_cap |-> p.marketCap,
          shares_outstanding |-> p.sharesOutstanding,
          ebit |-> p.ebit,
          tax_expense |-> p.tax,
          depreciation |-> p.dep,
          interest_expense |-> p.interest,
          total_debt |-> Add(OrZero(p.ltd), OrZero(p.std)),
          cash |-> IF IsNone(p.cash) THEN Q(0) ELSE p.cash,
          capex |-> IF Truthy(p.capex) THEN <<Abs(p.capex[1]), p.capex[2]>> ELSE Q(0),
          change_in_wc |-> Q(0)]

\* What fetch_company_data and main print about the data.
FetchOutput(p) ==
    IF p.raises THEN {"Error fetching data"}
    ELSE IF ~p.financials THEN {"Error: Could not fetch financials"}
    ELSE IF ~p.balance_sheet THEN {"Error: Could not fetch balance sheet"}
    ELSE IF ~p.cashflow THEN {"Error: Could not fetch cash flow"}
    ELSE (IF IsNone(p.beta) THEN {"Warning: Beta not available"} ELSE {})
         \cup (IF IsNone(p.marketCap) \/ IsNone(p.sharesOutstanding)
               THEN {"Error: Market cap or shares outstanding not available"}
               ELSE IF IsNone(p.ebit)
               THEN {"Error: EBIT (Operating Income) not available"}
               ELSE {})

-----------------------------------------------------------------------------
(* The sensitivity grid of create_visualizations *)

GridPoints == 7

\* np.linspace(lo, hi, GridPoints)[k], k = 1..GridPoints
linspace(lo, hi, k) ==
    Add(lo, Mul(Q(k - 1), Div(Sub(hi, lo), Q(GridPoints - 1))))

wacc_axis(w) ==
    [k \in 1..GridPoints |-> linspace(Mul(w, <<4, 5>>), Mul(w, <<6, 5>>), k)]

growth_axis(w, perpetual_growth) ==
    [k \in 1..GridPoints |->
        linspace(Mul(perpetual_growth, <<1, 2>>),
                 Min(Mul(perpetual_growth, <<3, 2>>), Mul(w, <<9, 10>>)), k)]

\* One cell: the value for the pair (w, g), or nan.
sensitivity_cell(w, g, fcffs, total_debt, cash, shares_outstanding) ==
    IF Lt(g, w)
    THEN LET h == Len(fcffs)
             tv_sens == Div(Mul(fcffs[h], Add(Q(1), g)), Sub(w, g))
             pv_tv_sens == Div(tv_sens, Pow(Add(Q(1), w), h))
             pv_fcff_sens == Sum([idx \in 1..h |-> Div(fcffs[idx], Pow(Add(Q(1), w), idx))])
             ev_sens == Add(pv_fcff_sens, pv_tv_sens)
             eq_val_sens == Add(Sub(ev_sens, total_debt), cash)
         IN  NpDiv(eq_val_sens, shares_outstanding)
    ELSE NaN

\* np.abs(axis - x), element by element
np_abs_diff(axis, x) ==
    [k \in 1..Len(axis) |-> LET d == Sub(axis[k], x) IN <<Abs(d[1]), d[2]>>]

\* Mutant: the index of the largest element.
argmax(s) ==
    (CHOOSE k \in 1..Len(s) :
        /\ \A m \in 1..Len(s) : Le(s[m], s[k])
        /\ \A m \in 1..(k - 1) : Lt(s[m], s[k])) - 1

\* np.argmin(s): the 0-based index of the first smallest element.
argmin(s) ==
    (CHOOSE k \in 1..Len(s) :
        /\ \A m \in 1..Len(s) : Le(s[k], s[m])
        /\ \A m \in 1..(k - 1) : Lt(s[k], s[m])) - 1

-----------------------------------------------------------------------------
(* What the user types and what the provider holds.  The values are chosen  *)
(* so that every quantity of the run, the 49 grid cells included, is an     *)
(* exact rational within TLC's integers: the WACC of every company below is *)
(* 30% or 50%.                                                              *)

Entries ==
    [risk_free_rate : {Q(10)}, equity_risk_premium : {Q(20)},
     forecast_years : {1, 2},
     perpetual_growth : {Q(-1), Q(0), Q(6), Q(18), Q(24), Q(60)},
     use_custom_growth : {"n"}, short_term_growth : {None}]
    \cup
    [risk_free_rate : {Q(10)}, equity_risk_premium : {Q(20)},
     forecast_years : {1, 2},
     perpetual_growth : {Q(-1), Q(0), Q(6), Q(18), Q(24), Q(60)},
     use_custom_growth : {"y"}, short_term_growth : {Q(0), Q(25)}]

Complete ==
    [raises |-> FALSE, financials |-> TRUE, balance_sheet |-> TRUE, cashflow |-> TRUE,
     beta |-> Q(2), marketCap |-> Q(100), sharesOutstanding |-> Q(10),
     ebit |-> Q(800), tax |-> Q(400), dep |-> Q(400), interest |-> Q(20),
     ltd |-> Q(60), std |-> Q(40), cash |-> Q(50), capex |-> Q(-400)]

Companies ==
    { Complete,
      [Complete EXCEPT !.beta = None, !.interest = Q(60)],
      [Complete EXCEPT !.interest = None, !.marketCap = Q(140)],
      [Complete EXCEPT !.dep = None, !.capex = None],
      [Complete EXCEPT !.ltd = None, !.std = Q(100)],
      [Complete EXCEPT !.std = None, !.ltd = Q(100)],
      [Complete EXCEPT !.ltd = None, !.std = None, !.cash = None],
      [Complete EXCEPT !.tax = None, !.ebit = Q(400), !.capex = Q(-316),
                       !.ltd = None, !.std = None],
      [Complete EXCEPT !.sharesOutstanding = Q(0)],
      [Complete EXCEPT !.marketCap = Q(0), !.ltd = None, !.std = None],
      [Complete EXCEPT !.ebit = Q(0), !.tax = None, !.dep = None, !.capex = None,
                       !.marketCap = Q(0), !.ltd = Q(0), !.std = None,
                       !.cash = None, !.sharesOutstanding = Q(0)],
      [Complete EXCEPT !.raises = TRUE],
      [Complete EXCEPT !.financials = FALSE],
      [Complete EXCEPT !.balance_sheet = FALSE],
      [Complete EXCEPT !.cashflow = FALSE] }

Required == {"ebit", "marketCap", "sharesOutstanding"}

\* The company c with the fields in missing absent.
Without(c, missing) ==
    [f \in DOMAIN c |-> IF f \in missing THEN None ELSE c[f]]

Providers == {Without(c, m) : c \in Companies, m \in SUBSET Required}

-----------------------------------------------------------------------------
(* main() *)

Init ==
    /\ pc = "get_user_inputs"
    /\ entered = None /\ inputs = None /\ provider = None /\ company_data = None
    /\ tax_rate = None /\ cost_of_equity = None /\ cost_of_debt = None
    /\ wacc = None /\ base_fcff = None /\ forecasted_fcff = None
    /\ terminal_value = None /\ enterprise_value = None /\ pv_fcff_list = None
    /\ pv_terminal = None /\ equity_value = None /\ intrinsic_value = None
    /\ wacc_range = None /\ growth_range = None /\ sensitivity_matrix = None
    /\ row = 0 /\ stdout = {}
    /\ current_wacc_idx = None /\ current_growth_idx = None
    /\ call = None /\ ret = None

GetUserInputs ==
    /\ pc = "get_user_inputs"
    /\ \E e \in Entries :
          /\ entered' = e
          /\ IF EntriesValid(e)
             THEN inputs' = get_user_inputs(e) /\ pc' = "fetch_company_data"
                  /\ UNCHANGED stdout
             ELSE inputs' = inputs /\ pc' = "exit"
                  /\ stdout' = stdout \cup {"Error: Invalid input"}
    /\ UNCHANGED <<provider, company_data, tax_rate, cost_of_equity, cost_of_debt,
                   wacc, base_fcff, forecasted_fcff, terminal_value,
                   enterprise_value, pv_fcff_list, pv_terminal, equity_value,
                   intrinsic_value, wacc_range, growth_range, sensitivity_matrix,
                   row, call, ret,
                   current_wacc_idx, current_growth_idx>>

FetchCompanyData ==
    /\ pc = "fetch_company_data"
    /\ \E p \in Providers :
          /\ provider' = p
          /\ company_data' = fetch_company_data(p)
          /\ IF company_data' = None
             THEN /\ pc' = "exit"
                  /\ stdout' = stdout \cup FetchOutput(p)
                                      \cup {"Failed to retrieve company data. Exiting."}
             ELSE /\ pc' = "calculate_tax_rate"
                  /\ stdout' = stdout \cup FetchOutput(p)
    /\ UNCHANGED <<entered, inputs, tax_rate, cost_of_equity, cost_of_debt,
                   wacc, base_fcff, forecasted_fcff, terminal_value,
                   enterprise_value, pv_fcff_list, pv_terminal, equity_value,
                   intrinsic_value, wacc_range, growth_range, sensitivity_matrix,
                   row, call, ret,
                   current_wacc_idx, current_growth_idx>>

TaxRate ==
    /\ pc = "calculate_tax_rate"
    /\ tax_rate' = calculate_tax_rate(company_data.ebit, company_data.tax_expense)
    /\ pc' = "calculate_cost_of_equity"
    /\ UNCHANGED <<entered, inputs, provider, company_data, cost_of_equity,
                   cost_of_debt, wacc, base_fcff, forecasted_fcff, terminal_value,
                   enterprise_value, pv_fcff_list, pv_terminal, equity_value,
                   intrinsic_value, wacc_range, growth_range, sensitivity_matrix,
                   row, stdout, call, ret,
                   current_wacc_idx, current_growth_idx>>

CostOfEquity ==
    /\ pc = "calculate_cost_of_equity"
    /\ cost_of_equity' = calculate_cost_of_equity(inputs.risk_free_rate,
                             company_data.beta, inputs.equity_risk_premium)
    /\ pc' = "calculate_cost_of_debt"
    /\ UNCHANGED <<entered, inputs, provider, company_data, tax_rate,
                   cost_of_debt, wacc, base_fcff, forecasted_fcff, terminal_value,
                   enterprise_value, pv_fcff_list, pv_terminal, equity_value,
                   intrinsic_value, wacc_range, growth_range, sensitivity_matrix,
                   row, stdout, call, ret,
                   current_wacc_idx, current_growth_idx>>

CostOfDebt ==
    /\ pc = "calculate_cost_of_debt"
    /\ cost_of_debt' = calculate_cost_of_debt(company_data.total_debt,
                           company_data.interest_expense, tax_rate)
    /\ pc' = "calculate_wacc"
    /\ UNCHANGED <<entered, inputs, provider, company_data, tax_rate,
                   cost_of_equity, wacc, base_fcff, forecasted_fcff, terminal_value,
                   enterprise_value, pv_fcff_list, pv_terminal, equity_value,
                   intrinsic_value, wacc_range, growth_range, sensitivity_matrix,
                   row, stdout, call, ret,
                   current_wacc_idx, current_growth_idx>>

Wacc ==
    /\ pc = "calculate_wacc"
    /\ wacc' = calculate_wacc(cost_of_equity, cost_of_debt,
                              company_data.market_cap, company_data.total_debt)
    /\ pc' = "calculate_fcff"
    /\ UNCHANGED <<entered, inputs, provider, company_data, tax_rate,
                   cost_of_equity, cost_of_debt, base_fcff, forecasted_fcff,
                   terminal_value, enterprise_value, pv_fcff_list, pv_terminal,
                   equity_value, intrinsic_value, wacc_range, growth_range,
                   sensitivity_matrix, row, stdout, call, ret,
                   current_wacc_idx, current_growth_idx>>

Fcff ==
    /\ pc = "calculate_fcff"
    /\ base_fcff' = calculate_fcff(company_data.ebit, tax_rate,
                        company_data.depreciation, company_data.capex,
                        company_data.change_in_wc)
    /\ pc' = "forecast_fcff"
    /\ UNCHANGED <<entered, inputs, provider, company_data, tax_rate,
                   cost_of_equity, cost_of_debt, wacc, forecasted_fcff,
                   terminal_value, enterprise_value, pv_fcff_list, pv_terminal,
                   equity_value, intrinsic_value, wacc_range, growth_range,
                   sensitivity_matrix, row, stdout, call, ret,
                   current_wacc_idx, current_growth_idx>>

Forecast ==
    /\ pc = "forecast_fcff"
    /\ forecasted_fcff' = forecast_fcff(base_fcff, inputs.forecast_years,
                                        inputs.short_term_growth)
    /\ pc' = "calculate_terminal_value"
    /\ UNCHANGED <<entered, inputs, provider, company_data, tax_rate,
                   cost_of_equity, cost_of_debt, wacc, base_fcff,
                   terminal_value, enterprise_value, pv_fcff_list, pv_terminal,
                   equity_value, intrinsic_value, wacc_range, growth_range,
                   sensitivity_matrix, row, stdout, call, ret,
                   current_wacc_idx, current_growth_idx>>

\* main keeps whatever calculate_terminal_value returned and goes on.
TerminalValue ==
    /\ pc = "calculate_terminal_value"
    /\ terminal_value' = calculate_terminal_value(
                             forecasted_fcff[Len(forecasted_fcff)],
                             inputs.perpetual_growth, wacc)
    /\ stdout' = IF Le(wacc, inputs.perpetual_growth)
                 THEN stdout \cup {TerminalValueError} ELSE stdout
    /\ pc' = "calculate_enterprise_value"
    /\ UNCHANGED <<entered, inputs, provider, company_data, tax_rate,
                   cost_of_equity, cost_of_debt, wacc, base_fcff, forecasted_fcff,
                   enterprise_value, pv_fcff_list, pv_terminal,
                   equity_value, intrinsic_value, wacc_range, growth_range,
                   sensitivity_matrix, row, call, ret,
                   current_wacc_idx, current_growth_idx>>

EnterpriseValue ==
    /\ pc = "calculate_enterprise_value"
    /\ LET r == calculate_enterprise_value(forecasted_fcff, terminal_value, wacc)
       IN  /\ enterprise_value' = r[1]
           /\ pv_fcff_list' = r[2]
           /\ pv_terminal' = r[3]
    /\ pc' = "calculate_equity_value"
    /\ UNCHANGED <<entered, inputs, provider, company_data, tax_rate,
                   cost_of_equity, cost_of_debt, wacc, base_fcff, forecasted_fcff,
                   terminal_value, equity_value, intrinsic_value, wacc_range,
                   growth_range, sensitivity_matrix, row, stdout, call, ret,
                   current_wacc_idx, current_growth_idx>>

EquityValue ==
    /\ pc = "calculate_equity_value"
    /\ equity_value' = calculate_equity_value(enterprise_value,
                           company_data.total_debt, company_data.cash)
    /\ pc' = "calculate_intrinsic_value_per_share"
    /\ UNCHANGED <<entered, inputs, provider, company_data, tax_rate,
                   cost_of_equity, cost_of_debt, wacc, base_fcff, forecasted_fcff,
                   terminal_value, enterprise_value, pv_fcff_list, pv_terminal,
                   intrinsic_value, wacc_range, growth_range, sensitivity_matrix,
                   row, stdout, call, ret,
                   current_wacc_idx, current_growth_idx>>

IntrinsicValue ==
    /\ pc = "calculate_intrinsic_value_per_share"
    /\ intrinsic_value' = calculate_intrinsic_value_per_share(equity_value,
                              company_data.shares_outstanding)
    /\ pc' = "print_summary"
    /\ UNCHANGED <<entered, inputs, provider, company_data, tax_rate,
                   cost_of_equity, cost_of_debt, wacc, base_fcff, forecasted_fcff,
                   terminal_value, enterprise_value, pv_fcff_list, pv_terminal,
                   equity_value, wacc_range, growth_range, sensitivity_matrix,
                   row, stdout, call, ret,
                   current_wacc_idx, current_growth_idx>>

\* print_summary reports the valuation; it changes nothing.
PrintSummary ==
    /\ pc = "print_summary"
    /\ pc' = "create_visualizations"
    /\ stdout' = stdout \cup {"DCF VALUATION SUMMARY"}
    /\ UNCHANGED <<entered, inputs, provider, company_data, tax_rate,
                   cost_of_equity, cost_of_debt, wacc, base_fcff, forecasted_fcff,
                   terminal_value, enterprise_value, pv_fcff_list, pv_terminal,
                   equity_value, intrinsic_value, wacc_range, growth_range,
                   sensitivity_matrix, row, call, ret,
                   current_wacc_idx, current_growth_idx>>

\* create_visualizations: the two axes and the matrix of zeros.
SensitivityAxes ==
    /\ pc = "create_visualizations"
    /\ wacc_range' = wacc_axis(wacc)
    /\ growth_range' = growth_axis(wacc, inputs.perpetual_growth)
    /\ sensitivity_matrix' = [i \in 1..GridPoints |-> [j \in 1..GridPoints |-> Q(0)]]
    /\ row' = 1
    /\ pc' = "sensitivity"
    /\ UNCHANGED <<entered, inputs, provider, company_data, tax_rate,
                   cost_of_equity, cost_of_debt, wacc, base_fcff, forecasted_fcff,
                   terminal_value, enterprise_value, pv_fcff_list, pv_terminal,
                   equity_value, intrinsic_value, stdout, call, ret,
                   current_wacc_idx, current_growth_idx>>

\* create_visualizations: one pass of the outer loop fills a row of the matrix.
SensitivityRow ==
    /\ pc = "sensitivity"
    /\ row <= GridPoints
    /\ sensitivity_matrix' =
           [sensitivity_matrix EXCEPT ![row] =
               [j \in 1..GridPoints |->
                   sensitivity_cell(wacc_range[row], growth_range[j], forecasted_fcff,
                                    company_data.total_debt, company_data.cash,
                                    company_data.shares_outstanding)]]
    /\ row' = row + 1
    /\ pc' = IF row = GridPoints THEN "mark_current" ELSE "sensitivity"
    /\ UNCHANGED <<entered, inputs, provider, company_data, tax_rate,
                   cost_of_equity, cost_of_debt, wacc, base_fcff, forecasted_fcff,
                   terminal_value, enterprise_value, pv_fcff_list, pv_terminal,
                   equity_value, intrinsic_value, wacc_range, growth_range,
                   stdout, call, ret,
                   current_wacc_idx, current_growth_idx>>

\* create_visualizations: the cell framed on the heatmap as the current
\* assumptions.
MarkCurrent ==
    /\ pc = "mark_current"
    /\ current_wacc_idx' = argmin(np_abs_diff(wacc_range, wacc))
    /\ current_growth_idx' = argmin(np_abs_diff(growth_range, inputs.perpetual_growth))
    /\ pc' = "wacc_breakdown"
    /\ UNCHANGED <<entered, inputs, provider, company_data, tax_rate,
                   cost_of_equity, cost_of_debt, wacc, base_fcff, forecasted_fcff,
                   terminal_value, enterprise_value, pv_fcff_list, pv_terminal,
                   equity_value, intrinsic_value, wacc_range, growth_range,
                   sensitivity_matrix, row, stdout, call, ret>>

\* create_visualizations: the weights of the WACC pie chart; a zero total value
\* raises ZeroDivisionError, which the handler at the bottom of the file prints.
WaccBreakdown ==
    /\ pc = "wacc_breakdown"
    /\ LET total_value == Add(company_data.market_cap, company_data.total_debt)
           weight_equity == Div(company_data.market_cap, total_value)
       IN  IF weight_equity = ZeroDivisionError
           THEN pc' = "raised" /\ stdout' = stdout \cup {"Unexpected error"}
           ELSE pc' = "done" /\ stdout' = stdout
    /\ UNCHANGED <<entered, inputs, provider, company_data, tax_rate,
                   cost_of_equity, cost_of_debt, wacc, base_fcff, forecasted_fcff,
                   terminal_value, enterprise_value, pv_fcff_list, pv_terminal,
                   equity_value, intrinsic_value, wacc_range, growth_range,
                   sensitivity_matrix, row, call, ret,
                   current_wacc_idx, current_growth_idx>>

Next ==
    \/ GetUserInputs \/ FetchCompanyData \/ TaxRate \/ CostOfEquity \/ CostOfDebt
    \/ Wacc \/ Fcff \/ Forecast \/ TerminalValue \/ EnterpriseValue
    \/ EquityValue \/ IntrinsicValue \/ PrintSummary
    \/ SensitivityAxes \/ SensitivityRow \/ MarkCurrent \/ WaccBreakdown

Spec == Init /\ [][Next]_vars

-----------------------------------------------------------------------------
(* Direct calls of the formulas: the arguments are drawn from the sets     *)
(* below, the call is made once, and ret holds what it returned.           *)

MaxYears == 3

Pending == None
Amounts == {Q(-100), Q(0), Q(50), Q(100), Q(200)}
OptAmounts == {None, Q(-10), Q(0), Q(10), Q(21), Q(50), Q(150)}
Rates == {Q(0), Pct(21), Frac(1, 2), Q(1)}
Costs == {Q(0), Pct(4), Pct(9), Pct(30)}
Growths == {Q(0), Frac(1, 40), Pct(3), Pct(9)}
Flows == {Q(-50), Q(0), Q(74), Q(100)}
Overrides == {None, Q(0), Pct(5), Pct(10), Q(1)}
SeqsUpTo(S, n) == UNION {[1..k -> S] : k \in 1..n}

Call(fn, args) == [fn |-> fn, args |-> args]

UnitCalls ==
    {Call("calculate_tax_rate", <<e, t>>) : e \in Amounts, t \in OptAmounts}
    \cup {Call("calculate_cost_of_debt", <<d, i, r>>) :
              d \in {Q(0), Q(100), Q(200)}, i \in OptAmounts, r \in Rates}
    \cup {Call("calculate_cost_of_equity", <<rf, b, erp>>) :
              rf \in Costs, b \in {Q(-1), Q(0), Q(1), Q(2)}, erp \in Costs}
    \cup {Call("calculate_wacc", <<ce, cd, m, d>>) :
              ce \in Costs, cd \in Costs, m \in {Q(0), Q(100), Q(300)},
              d \in {Q(0), Q(100)}}
    \cup {Call("calculate_fcff", <<e, r, dep, cx, wc>>) :
              e \in {Q(-100), Q(0), Q(100)}, r \in Rates,
              dep \in {None, Q(0), Q(10)}, cx \in {Q(0), Q(15)}, wc \in {Q(0), Q(5)}}
    \cup {Call("forecast_fcff", <<b, n, g>>) :
              b \in Flows, n \in {Q(k) : k \in 1..MaxYears}, g \in Overrides}
    \cup {Call("calculate_terminal_value", <<f, g, w>>) :
              f \in Flows, g \in Growths, w \in Growths}
    \cup {Call("calculate_enterprise_value", <<fs, tv, w>>) :
              fs \in SeqsUpTo({Q(50), Q(100)}, MaxYears), tv \in {Q(0), Q(1000)},
              w \in {Q(0), Pct(10), Frac(1, 2), Q(1)}}
    \cup {Call("calculate_equity_value", <<ev, d, c>>) :
              ev \in Amounts, d \in {Q(0), Q(100)}, c \in {Q(0), Q(50)}}
    \cup {Call("calculate_intrinsic_value_per_share", <<eq, s>>) :
              eq \in Amounts, s \in {Q(0), Q(10), Q(200)}}

Idle ==
    /\ pc = "idle"
    /\ entered = None /\ inputs = None /\ provider = None /\ company_data = None
    /\ tax_rate = None /\ cost_of_equity = None /\ cost_of_debt = None
    /\ wacc = None /\ base_fcff = None /\ forecasted_fcff = None
    /\ terminal_value = None /\ enterprise_value = None /\ pv_fcff_list = None
    /\ pv_terminal = None /\ equity_value = None /\ intrinsic_value = None
    /\ wacc_range = None /\ growth_range = None /\ sensitivity_matrix = None
    /\ row = 0 /\ stdout = {}
    /\ current_wacc_idx = None /\ current_growth_idx = None

mainVars == <<pc, entered, inputs, provider, company_data, tax_rate, cost_of_equity,
              cost_of_debt, wacc, base_fcff, forecasted_fcff, terminal_value,
              enterprise_value, pv_fcff_list, pv_terminal, equity_value,
              intrinsic_value, wacc_range, growth_range, sensitivity_matrix, row,
              current_wacc_idx, current_growth_idx>>

InitUnit == Idle /\ call \in UnitCalls /\ ret = Pending

Returns(fn, value) ==
    /\ call.fn = fn /\ ret = Pending
    /\ ret' = value
    /\ UNCHANGED <<mainVars, call>>

CallTaxRate ==
    /\ Returns("calculate_tax_rate", calculate_tax_rate(call.args[1], call.args[2]))
    /\ UNCHANGED stdout
CallCostOfDebt ==
    /\ Returns("calculate_cost_of_debt",
               calculate_cost_of_debt(call.args[1], call.args[2], call.args[3]))
    /\ UNCHANGED stdout
CallCostOfEquity ==
    /\ Returns("calculate_cost_of_equity",
               calculate_cost_of_equity(call.args[1], call.args[2], call.args[3]))
    /\ UNCHANGED stdout
CallWacc ==
    /\ Returns("calculate_wacc",
               calculate_wacc(call.args[1], call.args[2], call.args[3], call.args[4]))
    /\ UNCHANGED stdout
CallFcff ==
    /\ Returns("calculate_fcff",
               calculate_fcff(call.args[1], call.args[2], call.args[3],
                              call.args[4], call.args[5]))
    /\ UNCHANGED stdout
CallForecast ==
    /\ Returns("forecast_fcff",
               forecast_fcff(call.args[1], call.args[2][1], call.args[3]))
    /\ UNCHANGED stdout
CallTerminalValue ==
    /\ Returns("calculate_terminal_value",
               calculate_terminal_value(call.args[1], call.args[2], call.args[3]))
    /\ stdout' = IF Le(call.args[3], call.args[2])
                  THEN stdout \cup {TerminalValueError} ELSE stdout
CallEnterpriseValue ==
    /\ Returns("calculate_enterprise_value",
               calculate_enterprise_value(call.args[1], call.args[2], call.args[3]))
    /\ UNCHANGED stdout
CallEquityValue ==
    /\ Returns("calculate_equity_value",
               calculate_equity_value(call.args[1], call.args[2], call.args[3]))
    /\ UNCHANGED stdout
CallIntrinsicValue ==
    /\ Returns("calculate_intrinsic_value_per_share",
               calculate_intrinsic_value_per_share(call.args[1], call.args[2]))
    /\ UNCHANGED stdout

NextUnit ==
    \/ CallTaxRate \/ CallCostOfDebt \/ CallCostOfEquity \/ CallWacc
    \/ CallFcff \/ CallForecast \/ CallTerminalValue \/ CallEnterpriseValue
    \/ CallEquityValue \/ CallIntrinsicValue

SpecUnit == InitUnit /\ [][NextUnit]_vars

-----------------------------------------------------------------------------
(* Properties of the direct calls *)

Done(fn) == call.fn = fn /\ ret # Pending
Arg(i) == call.args[i]
Clamp(x, lo, hi) == IF Lt(x, lo) THEN lo ELSE IF Lt(hi, x) THEN hi ELSE x

\* C1 (as claimed): whenever wacc <= perpetualGrowth, calculate_terminal_value
\* signals an error and returns no numeric value, in particular not 0.
C1_TerminalValueSignalsDomainViolation ==
    (Done("calculate_terminal_value") /\ Le(Arg(3), Arg(2))) => ~IsFinite(ret)

\* C4: calculate_tax_rate returns 0.21 when the tax expense is absent or
\* ebit <= 0, otherwise taxExpense/ebit clamped to [0, 0.5]; the result is
\* always within [0, 0.5].
C4_TaxRateFallbackAndClamp ==
    Done("calculate_tax_rate") =>
        /\ (IsNone(Arg(2)) \/ Arg(1)[1] <= 0) => ret = <<21, 100>>
        /\ (~IsNone(Arg(2)) /\ Arg(1)[1] > 0) =>
               ret = Clamp(Div(Arg(2), Arg(1)), Q(0), <<1, 2>>)
        /\ Le(Q(0), ret) /\ Le(ret, <<1, 2>>)

C4_Witness ==
    /\ Done("calculate_tax_rate")
    /\ ~IsNone(Arg(2)) /\ Arg(1)[1] > 0
    /\ Lt(<<1, 2>>, Div(Arg(2), Arg(1)))
    /\ ret = <<1, 2>>

\* C5: calculate_cost_of_debt returns 0 whenever totalDebt = 0, whatever the
\* interest expense and tax rate; otherwise pretax * (1 - taxRate), where pretax
\* is interestExpense/totalDebt if the interest expense is present and nonzero
\* and 0.04 if it is absent or zero.
C5_CostOfDebt ==
    Done("calculate_cost_of_debt") =>
        /\ Arg(1)[1] = 0 => ret = Q(0)
        /\ (Arg(1)[1] # 0 /\ Truthy(Arg(2))) =>
               ret = Mul(Div(Arg(2), Arg(1)), Sub(Q(1), Arg(3)))
        /\ (Arg(1)[1] # 0 /\ ~Truthy(Arg(2))) =>
               ret = Mul(<<1, 25>>, Sub(Q(1), Arg(3)))

C5_Witness ==
    /\ Done("calculate_cost_of_debt")
    /\ Arg(1)[1] = 0 /\ Arg(2) = Q(10) /\ Arg(3) = <<21, 100>>
    /\ ret = Q(0)

\* C6: calculate_wacc returns costOfEquity when marketCap + totalDebt = 0 and
\* never divides by zero; otherwise the market-value weighted average of the
\* two costs, with weights that sum to 1.
C6_Wacc ==
    Done("calculate_wacc") =>
        LET total == Add(Arg(3), Arg(4))
        IN  /\ ret # ZeroDivisionError
            /\ total[1] = 0 => ret = Arg(1)
            /\ total[1] # 0 =>
                   LET we == Div(Arg(3), total)
                       wd == Div(Arg(4), total)
                   IN  /\ Add(we, wd) = Q(1)
                       /\ ret = Add(Mul(we, Arg(1)), Mul(wd, Arg(2)))

C6_Witness ==
    /\ Done("calculate_wacc")
    /\ Arg(3)[1] = 0 /\ Arg(4)[1] = 0 /\ Arg(1) # Arg(2)
    /\ ret = Arg(1)

\* C7: forecast_fcff returns exactly n elements, the one for year i being
\* base * (1+g)^i, with g = 0.05 when no growth is passed.
C7_Forecast ==
    Done("forecast_fcff") =>
        LET g == IF IsNone(Arg(3)) THEN <<1, 20>> ELSE Arg(3)
        IN  /\ Len(ret) = Arg(2)[1]
            /\ \A i \in 1..Arg(2)[1] : ret[i] = Mul(Arg(1), Pow(Add(Q(1), g), i))

C7_Witness ==
    /\ Done("forecast_fcff")
    /\ IsNone(Arg(3)) /\ Arg(1) = Q(74) /\ Arg(2)[1] = 3
    /\ ret = <<<<777, 10>>, <<16317, 200>>, <<342657, 4000>>>>

\* C8: calculate_enterprise_value discounts the year-i cash flow by (1+wacc)^i
\* and the terminal value by (1+wacc)^horizon, horizon being the length of the
\* forecast; the per-year PVs keep the forecast's length and order, and the
\* enterprise value is their sum plus the PV of the terminal value.  For a
\* single year [F] it is F/(1+wacc) + TV/(1+wacc).
C8_EnterpriseValue ==
    Done("calculate_enterprise_value") =>
        LET fs == Arg(1)
            tv == Arg(2)
            d == Add(Q(1), Arg(3))
            h == Len(fs)
        IN  /\ Len(ret[2]) = h
            /\ \A i \in 1..h : ret[2][i] = Div(fs[i], Pow(d, i))
            /\ ret[3] = Div(tv, Pow(d, h))
            /\ ret[1] = Add(Sum(ret[2]), ret[3])
            /\ h = 1 => ret[1] = Add(Div(fs[1], d), Div(tv, d))

C8_Witness ==
    /\ Done("calculate_enterprise_value")
    /\ Arg(1) = <<Q(50), Q(100)>> /\ Arg(2) = Q(1000) /\ Arg(3) = Q(1)
    /\ ret = <<Q(300), <<Q(25), Q(25)>>, Q(250)>>

\* C9: calculate_fcff is ebit*(1-taxRate) + depreciation - capex - changeInWC,
\* an absent depreciation counting as 0; ebit=100, taxRate=0.21, depreciation=10,
\* capex=15, changeInWC=0 gives 74.
C9_BaseFcff ==
    Done("calculate_fcff") =>
        LET dep == IF IsNone(Arg(3)) THEN Q(0) ELSE Arg(3)
        IN  /\ ret = Sub(Sub(Add(Mul(Arg(1), Sub(Q(1), Arg(2))), dep), Arg(4)), Arg(5))
            /\ call.args = <<Q(100), <<21, 100>>, Q(10), Q(15), Q(0)>> => ret = Q(74)

C9_Witness ==
    /\ Done("calculate_fcff")
    /\ call.args = <<Q(100), <<21, 100>>, None, Q(15), Q(5)>>
    /\ ret = Q(59)

-----------------------------------------------------------------------------
(* Properties of a run of main() *)

RequiredMissing(p) ==
    IsNone(p.ebit) \/ IsNone(p.marketCap) \/ IsNone(p.sharesOutstanding)
Available(p) == ~p.raises /\ p.financials /\ p.balance_sheet /\ p.cashflow
NothingComputed ==
    /\ tax_rate = None /\ cost_of_equity = None /\ cost_of_debt = None
    /\ wacc = None /\ base_fcff = None /\ forecasted_fcff = None
    /\ terminal_value = None /\ enterprise_value = None /\ equity_value = None
    /\ intrinsic_value = None /\ sensitivity_matrix = None
AbsentAsZero(x) == IF IsNone(x) THEN Q(0) ELSE x

\* C2 (as claimed): in a run of main, once the computed WACC is <= the
\* perpetual growth rate, no enterprise value, equity value or intrinsic value
\* per share is computed from the terminal value.
C2_DomainViolationStopsRun ==
    (wacc # None /\ Le(wacc, inputs.perpetual_growth)) =>
        /\ enterprise_value = None
        /\ equity_value = None
        /\ intrinsic_value = None

\* C3: with EBIT, market cap or shares outstanding absent the valuation fails:
\* no snapshot, no default for the missing field, no later step.  An absent
\* beta, interest expense, depreciation or debt component never fails it: the
\* snapshot is produced with beta 1.0 and the debt component 0, the run goes
\* on to a per-share value, and the cost of debt and the base FCFF use their
\* fallbacks (pretax 0.04, depreciation 0).
C3_RequiredFundamentals ==
    provider # None =>
        /\ RequiredMissing(provider) =>
               company_data = None /\ pc = "exit" /\ NothingComputed
        /\ (Available(provider) /\ ~RequiredMissing(provider)) =>
               /\ company_data # None /\ pc # "exit"
               /\ company_data.ebit = provider.ebit
               /\ company_data.market_cap = provider.marketCap
               /\ company_data.shares_outstanding = provider.sharesOutstanding
               /\ company_data.beta =
                      (IF IsNone(provider.beta) THEN <<1, 1>> ELSE provider.beta)
               /\ company_data.total_debt =
                      Add(AbsentAsZero(provider.ltd), AbsentAsZero(provider.std))
               /\ (cost_of_debt # None /\ IsNone(provider.interest)
                      /\ company_data.total_debt # Q(0)) =>
                      cost_of_debt = Mul(<<1, 25>>, Sub(Q(1), tax_rate))
               /\ (base_fcff # None /\ IsNone(provider.dep)) =>
                      base_fcff = Sub(Mul(company_data.ebit, Sub(Q(1), tax_rate)),
                                      company_data.capex)
               /\ pc \in {"done", "raised"} => IsFinite(intrinsic_value)

C3_Witness ==
    /\ provider # None /\ Available(provider)
    /\ IsNone(provider.ebit) /\ IsNone(provider.beta)
    /\ ~IsNone(provider.marketCap) /\ ~IsNone(provider.sharesOutstanding)
    /\ company_data = None /\ pc = "exit"

GridFilled == pc \in {"mark_current", "wacc_breakdown", "done", "raised"}

\* C10 (as claimed): once the 7x7 grid is filled, every cell with
\* wacc_cell <= growth_cell is marked invalid (nan) and every cell with
\* wacc_cell > growth_cell holds a numeric per-share value.
C10_GridCellsValidOrMarked ==
    GridFilled =>
        \A i \in 1..GridPoints : \A j \in 1..GridPoints :
            IF Le(wacc_range[i], growth_range[j])
            THEN IsNaN(sensitivity_matrix[i][j])
            ELSE IsFinite(sensitivity_matrix[i][j])

\* The value of the pair (w, g) by the chain of the four formulas main() calls.
ChainValue(w, g) ==
    calculate_intrinsic_value_per_share(
        calculate_equity_value(
            calculate_enterprise_value(
                forecasted_fcff,
                calculate_terminal_value(forecasted_fcff[Len(forecasted_fcff)], g, w),
                w)[1],
            company_data.total_debt, company_data.cash),
        company_data.shares_outstanding)

\* C11 (as claimed): once the grid is filled, every cell with
\* wacc_cell > growth_cell holds exactly the value that calculate_terminal_value,
\* calculate_enterprise_value, calculate_equity_value and
\* calculate_intrinsic_value_per_share give for that pair, whatever the shares
\* outstanding, total debt and cash of the snapshot (shares outstanding = 0
\* included).
C11_GridCellEqualsChain ==
    GridFilled =>
        \A i \in 1..GridPoints : \A j \in 1..GridPoints :
            Lt(growth_range[j], wacc_range[i]) =>
                sensitivity_matrix[i][j] = ChainValue(wacc_range[i], growth_range[j])

NoShares == company_data.shares_outstanding = Q(0)
NoCapital == Add(company_data.market_cap, company_data.total_debt) = Q(0)
Degenerate == company_data # None /\ (NoShares \/ NoCapital)

\* C12 (as claimed): a run on a degenerate snapshot (shares outstanding = 0, or
\* market cap + total debt = 0) never raises at any step from the tax rate to
\* the sensitivity grid and the WACC breakdown: the per-share value is 0 when
\* shares = 0, the WACC is the cost of equity when market cap + total debt = 0,
\* and no division by zero is attempted, so that no grid cell with
\* wacc_cell > growth_cell is the nan or infinity of one.
C12_DegenerateRunNeverRaises ==
    Degenerate =>
        /\ pc # "raised"
        /\ "Unexpected error" \notin stdout
        /\ (intrinsic_value # None /\ NoShares) => intrinsic_value = Q(0)
        /\ (wacc # None /\ NoCapital) => wacc = cost_of_equity
        /\ GridFilled =>
               \A i \in 1..GridPoints : \A j \in 1..GridPoints :
                   Lt(growth_range[j], wacc_range[i]) =>
                       IsFinite(sensitivity_matrix[i][j])

\* base * (1 + g)^i for i = 1..forecast_years
Compounded(base, g, forecast_years) ==
    [i \in 1..forecast_years |-> Mul(base, Pow(Add(Q(1), g), i))]

\* C13 (as claimed): the forecast of a run uses the default growth 0.05 only
\* when the user supplied no short-term growth override; with an override
\* g >= 0 supplied, g = 0 included, the forecast is base * (1 + g)^i for the
\* supplied g, so that a supplied 0 gives a forecast equal to base every year.
C13_DefaultOnlyWithoutOverride ==
    forecasted_fcff # None =>
        forecasted_fcff =
            Compounded(base_fcff,
                       IF entered.use_custom_growth = "y"
                       THEN Div(entered.short_term_growth, Q(100))
                       ELSE Pct(5),
                       entered.forecast_years)

Marked == pc \in {"wacc_breakdown", "done", "raised"}

\* Coordinates and value of the cell framed as the current assumptions.
MarkedWacc == wacc_range[current_wacc_idx + 1]
MarkedGrowth == growth_range[current_growth_idx + 1]
MarkedValue == sensitivity_matrix[current_wacc_idx + 1][current_growth_idx + 1]

\* A run with wacc > perpetual growth >= 0 and shares outstanding > 0, after
\* the cell has been framed.
BaseCaseRun ==
    /\ Marked
    /\ Lt(inputs.perpetual_growth, wacc)
    /\ Le(Q(0), inputs.perpetual_growth)
    /\ Lt(Q(0), company_data.shares_outstanding)

\* The upper end of the growth axis is 0.9 * wacc, below 1.5 * growth.
Clamped == Lt(Mul(wacc, <<9, 10>>), Mul(inputs.perpetual_growth, <<3, 2>>))

Centre == (GridPoints - 1) \div 2

\* C14 (as claimed): in every run with wacc > perpetual growth >= 0 and shares
\* outstanding > 0 the framed cell is the centre cell (3, 3), its coordinates
\* are (wacc, perpetual growth) and its value is the intrinsic value per share
\* of the main run, also when the growth axis ends at 0.9 * wacc.
C14_BaseCaseIsCentre ==
    BaseCaseRun =>
        /\ current_wacc_idx = Centre /\ current_growth_idx = Centre
        /\ MarkedWacc = wacc /\ MarkedGrowth = inputs.perpetual_growth
        /\ MarkedValue = intrinsic_value

\* C14 (corrected): in every run with wacc > perpetual growth >= 0 and shares
\* outstanding > 0 the framed cell is in the centre row 3 of the WACC axis,
\* whose coordinate is wacc; when the growth axis is not clamped
\* (1.5 * growth <= 0.9 * wacc) its growth coordinate is the perpetual growth
\* and its value is the intrinsic value per share of the main run, and it is
\* the centre column 3 for growth > 0 and the first column 0 for growth = 0,
\* where the seven growth points coincide.
C14_BaseCaseUnclamped ==
    BaseCaseRun =>
        /\ current_wacc_idx = Centre /\ MarkedWacc = wacc
        /\ ~Clamped =>
               /\ MarkedGrowth = inputs.perpetual_growth
               /\ MarkedValue = intrinsic_value
               /\ current_growth_idx =
                      (IF inputs.perpetual_growth = Q(0) THEN 0 ELSE Centre)

C14_Witness ==
    /\ BaseCaseRun /\ ~Clamped /\ pc = "done"
    /\ Lt(Q(0), inputs.perpetual_growth)
    /\ current_wacc_idx = 3 /\ current_growth_idx = 3
    /\ MarkedValue = intrinsic_value /\ intrinsic_value # Q(0)

====
